---- MODULE Spec2Model ----
(***************************************************************************)
(* Model of the merge path of cudf.core.frame.Frame:                       *)
(*   Frame._validate_merge_cfg, Frame._merge, Frame._typecast_before_merge *)
(*   and its nested casting_rules.                                         *)
(*                                                                         *)
(* A column name is a Python str, modelled as the sequence of its code     *)
(* points, so that "%s%s" % (name, suffix) is concatenation and sorted()   *)
(* is the code-point lexicographic order.  A table is the ordered mapping  *)
(* Frame._data, modelled as a sequence of [name, dtype] records.           *)
(***************************************************************************)
EXTENDS Integers, Sequences, FiniteSets, TLC

\* ------------------------------------------------------------------ bounds
\* Longest table (number of columns) drawn as an input.
MaxCols == 3
\* Longest left_on / right_on list drawn as an input.
MaxKeys == 2
\* Largest rotation of its columns the join engine is given to choose.
MaxRot == 1

\* ------------------------------------------------------------- column names
N_a == <<97>>
N_b == <<98>>
N_x == <<120>>
N_y == <<121>>
N_z == <<122>>
N_id == <<105, 100>>
\* a column no input table has (an engine returning it is off contract)
N_extra == <<101, 120, 116, 114, 97>>
S_l == <<95, 108>>
S_r == <<95, 114>>
S_empty == <<>>
\* str(None), what "%s%s" % (name, None) appends
S_None == <<78, 111, 110, 101>>
S_codes == <<95, 99, 111, 100, 101, 115>>

\* ------------------------------------------------------------ str and list
\* s < t for Python str: code-point lexicographic order
RECURSIVE StrLess(_, _)
StrLess(s, t) ==
    IF t = <<>> THEN FALSE
    ELSE IF s = <<>> THEN TRUE
    ELSE IF Head(s) # Head(t) THEN Head(s) < Head(t)
    ELSE StrLess(Tail(s), Tail(t))

Range(s) == {s[i] : i \in DOMAIN s}

\* list.index(v): position of the first occurrence (0 when absent, where
\* Python raises ValueError; every use is guarded by "v in list")
IndexOf(s, v) ==
    IF v \in Range(s) THEN CHOOSE i \in DOMAIN s : s[i] = v /\ \A j \in 1..(i - 1) : s[j] # v
    ELSE 0

\* list.pop(i) leaves the list without its i-th element
RemoveAt(s, i) == [j \in 1..(Len(s) - 1) |-> IF j < i THEN s[j] ELSE s[j + 1]]

\* sorted(names): stable ascending insertion of each element in turn
RECURSIVE InsertSorted(_, _)
InsertSorted(s, v) ==
    IF s = <<>> THEN <<v>>
    ELSE IF StrLess(v, Head(s)) THEN <<v>> \o s
    ELSE <<Head(s)>> \o InsertSorted(Tail(s), v)

RECURSIVE Sorted(_)
Sorted(names) ==
    IF names = <<>> THEN <<>>
    ELSE InsertSorted(Sorted(SubSeq(names, 1, Len(names) - 1)), names[Len(names)])

\* sorted(cols, key=lambda x: str(x[0])), cols a list of (name, column)
RECURSIVE InsertSortedCol(_, _)
InsertSortedCol(s, c) ==
    IF s = <<>> THEN <<c>>
    ELSE IF StrLess(c.name, Head(s).name) THEN <<c>> \o s
    ELSE <<Head(s)>> \o InsertSortedCol(Tail(s), c)

RECURSIVE SortedCols(_)
SortedCols(cols) ==
    IF cols = <<>> THEN <<>>
    ELSE InsertSortedCol(SortedCols(SubSeq(cols, 1, Len(cols) - 1)), cols[Len(cols)])

\* min(len(s), len(t)) pairs, as zip() gives them
Zip(s, t) ==
    LET n == IF Len(s) < Len(t) THEN Len(s) ELSE Len(t)
    IN  [i \in 1..n |-> <<s[i], t[i]>>]

\* ------------------------------------------------------------------ tables
\* Frame._data.keys()
Keys(t) == [i \in DOMAIN t |-> t[i].name]
KeySet(t) == {t[i].name : i \in DOMAIN t}
\* Frame._data[name].dtype
DtypeOf(t, name) == t[IndexOf(Keys(t), name)].dtype

\* frame[name] = column : replaces the column in place, or appends it
SetItem(t, name, dtype) ==
    IF name \in KeySet(t)
    THEN [i \in DOMAIN t |-> IF t[i].name = name THEN [name |-> name, dtype |-> dtype] ELSE t[i]]
    ELSE Append(t, [name |-> name, dtype |-> dtype])

\* frame.rename({old: new}, inplace=True): the column keeps its position
Rename(t, old, new) ==
    [i \in DOMAIN t |-> IF t[i].name = old THEN [name |-> new, dtype |-> t[i].dtype] ELSE t[i]]

\* ------------------------------------------------------------------ dtypes
\* dtypes are named by their str(); a categorical dtype carries the dtype of
\* its categories
CategoricalDtypes == {"category[int64]", "category[int32]"}
NumericDtypes == {"int8", "int32", "int64", "float64"}
DatetimeDtypes == {"datetime64[ms]", "datetime64[ns]"}
\* the index of a frame is a single-level index of some dtype, or a MultiIndex
MultiIndex == "MultiIndex"

\* cudf.utils.dtypes.is_categorical_dtype
is_categorical_dtype(d) == d \in CategoricalDtypes
\* cudf.utils.dtypes.is_string_dtype
is_string_dtype(d) == d = "object"
\* cudf.utils.dtypes.is_datetime_dtype
is_datetime_dtype(d) == d \in DatetimeDtypes
\* column.cat.categories.dtype
CategoriesDtype(d) == IF d = "category[int64]" THEN "int64" ELSE "int32"
\* column.cat.codes.dtype
CodesDtype == "int8"

\* ---------------------------------------------------------------- suffixes
\* lsuffix / rsuffix: None, or a str
NoSuffix == [given |-> FALSE, text |-> <<>>]
Suffix(text) == [given |-> TRUE, text |-> text]
\* bool(suffix)
Truthy(sfx) == sfx.given /\ sfx.text # <<>>
\* "%s%s" % (name, suffix)
Suffixed(name, sfx) == name \o (IF sfx.given THEN sfx.text ELSE S_None)

\* ------------------------------------------- Frame._validate_merge_cfg
\* set(lhs._data.keys()) & set(rhs._data.keys())
SameNamedColumns(l, r) == KeySet(l) \cap KeySet(r)

\* name in left_on and name in right_on and
\* left_on.index(name) == right_on.index(name)
SameFirstIndex(name, lo, ro) ==
    /\ name \in Range(lo)
    /\ name \in Range(ro)
    /\ IndexOf(lo, name) = IndexOf(ro, name)

Bool2Int(b) == IF b THEN 1 ELSE 0

\* _validate_merge_cfg without the comparison of the key counts (lines 401-405)
ValidateMergeCfgNoCount(l, r, lidx, ridx, lo, ro, o, h, li, ri, lsfx, rsfx) ==
    IF lidx = MultiIndex \/ ridx = MultiIndex THEN "UnsupportedKeyStructure"
    ELSE IF h \notin {"left", "inner", "outer"} THEN "UnsupportedJoinKind"
    ELSE IF o # <<>> /\ (lo # <<>> \/ ro # <<>>) THEN "AmbiguousKeySpec"
    ELSE IF /\ ~(li \/ ri)
            /\ ~(lo # <<>> \/ ro # <<>>)
            /\ SameNamedColumns(l, r) = {} THEN "NoJoinKeys"
    ELSE IF /\ \E name \in SameNamedColumns(l, r) : ~SameFirstIndex(name, lo, ro)
            /\ ~(Truthy(lsfx) \/ Truthy(rsfx)) THEN "AmbiguousOverlap"
    ELSE IF o # <<>>
         THEN IF \E key \in Range(o) : ~(key \in KeySet(l) /\ key \in KeySet(r))
              THEN "MissingKey" ELSE "ok"
    ELSE IF \E key \in Range(lo) : key \notin KeySet(l) THEN "MissingKey"
    ELSE IF \E key \in Range(ro) : key \notin KeySet(r) THEN "MissingKey"
    ELSE "ok"

\* The error _validate_merge_cfg raises, "ok" when it returns.  The checks are
\* made in the order of the source; lo, ro and o are the lists _merge passes
\* (None already replaced by []).
ValidateMergeCfg(l, r, lidx, ridx, lo, ro, o, h, li, ri, lsfx, rsfx) ==
    IF lidx = MultiIndex \/ ridx = MultiIndex THEN "UnsupportedKeyStructure"
    ELSE IF h \notin {"left", "inner", "outer"} THEN "UnsupportedJoinKind"
    ELSE IF o # <<>> /\ (lo # <<>> \/ ro # <<>>) THEN "AmbiguousKeySpec"
    ELSE IF Len(lo) + Bool2Int(li) # Len(ro) + Bool2Int(ri) THEN "KeyCountMismatch"
    ELSE IF /\ ~(li \/ ri)
            /\ ~(lo # <<>> \/ ro # <<>>)
            /\ SameNamedColumns(l, r) = {} THEN "NoJoinKeys"
    ELSE IF /\ \E name \in SameNamedColumns(l, r) : ~SameFirstIndex(name, lo, ro)
            /\ ~(Truthy(lsfx) \/ Truthy(rsfx)) THEN "AmbiguousOverlap"
    ELSE IF o # <<>>
         THEN IF \E key \in Range(o) : ~(key \in KeySet(l) /\ key \in KeySet(r))
              THEN "MissingKey" ELSE "ok"
    ELSE IF \E key \in Range(lo) : key \notin KeySet(l) THEN "MissingKey"
    ELSE IF \E key \in Range(ro) : key \notin KeySet(r) THEN "MissingKey"
    ELSE "ok"

\* ------------------------------------------------ Frame._merge, lines 485-514
\* left_on (own = left_on, other = right_on) or right_on (the other way
\* round) after lines 485-490: "if on: left_on = right_on = on", then the
\* implicit choice of the shared columns; order is list(same_named_columns).
ResolvedOn(own, other, o, li, ri, order) ==
    IF o # <<>> THEN o
    ELSE IF ~(own # <<>> \/ other # <<>>) /\ ~(li /\ ri) THEN order
    ELSE own

\* after lines 485-490 left_on and right_on are one list object when the
\* keys came from "on" or were chosen implicitly
Aliased(lo, ro, o, li, ri) ==
    \/ o # <<>>
    \/ (~(lo # <<>> \/ ro # <<>>) /\ ~(li /\ ri))

\* no_suffix_cols
NoSuffixCols(l, r, lo, ro) ==
    {name \in SameNamedColumns(l, r) : SameFirstIndex(name, lo, ro)}

\* list[list.index(name)] = new, when name is in the list
ReplaceFirst(s, name, new) ==
    IF name \in Range(s) THEN [s EXCEPT ![IndexOf(s, name)] = new] ELSE s

\* one turn of the loop of lines 499-506 for a name that gets suffixed
RenameOne(st, name, lsfx, rsfx, aliased) ==
    LET lo1 == ReplaceFirst(st.left_on, name, Suffixed(name, lsfx))
        ro1 == IF aliased THEN lo1 ELSE st.right_on
        ro2 == ReplaceFirst(ro1, name, Suffixed(name, rsfx))
        lo2 == IF aliased THEN ro2 ELSE lo1
    IN  [lhs |-> Rename(st.lhs, name, Suffixed(name, lsfx)),
         rhs |-> Rename(st.rhs, name, Suffixed(name, rsfx)),
         left_on |-> lo2,
         right_on |-> ro2]

\* the loop of lines 499-506 over same_named_columns in iteration order
RECURSIVE RenameLoop(_, _, _, _, _, _)
RenameLoop(st, order, keep, lsfx, rsfx, aliased) ==
    IF order = <<>> THEN st
    ELSE RenameLoop(IF Head(order) \in keep THEN st
                    ELSE RenameOne(st, Head(order), lsfx, rsfx, aliased),
                    Tail(order), keep, lsfx, rsfx, aliased)

\* lines 485-506: tables and key lists after suffix resolution
ResolveSuffixes(l, r, lo, ro, o, li, ri, lsfx, rsfx, order) ==
    LET lo1 == ResolvedOn(lo, ro, o, li, ri, order)
        ro1 == ResolvedOn(ro, lo, o, li, ri, order)
    IN  RenameLoop([lhs |-> l, rhs |-> r, left_on |-> lo1, right_on |-> ro1],
                   order, NoSuffixCols(l, r, lo1, ro1), lsfx, rsfx,
                   Aliased(lo, ro, o, li, ri))

\* lines 508-511: name -> dtype of every categorical column, the right
\* table's entry replacing the left table's under the same name
CategoricalDtypesOf(l, r) ==
    [name \in {n \in KeySet(l) \cup KeySet(r) :
                 \/ (n \in KeySet(r) /\ is_categorical_dtype(DtypeOf(r, n)))
                 \/ (n \in KeySet(l) /\ is_categorical_dtype(DtypeOf(l, n)))} |->
        IF name \in KeySet(r) /\ is_categorical_dtype(DtypeOf(r, name))
        THEN DtypeOf(r, name) ELSE DtypeOf(l, name)]

\* org_names listing the right table's names before the left table's
OrgNamesRightFirst(l, r) == Keys(r) \o Keys(l)

\* line 514: org_names
OrgNames(l, r) == Keys(l) \o Keys(r)

\* ------------------------------------- Frame._typecast_before_merge
\* Column.can_cast_safely(dtype) of a column of dtype from whose nulls were
\* filled: a widening within the numeric dtypes never loses a value, any
\* other cast is safe when the column's data fits the target (fits)
CanCastSafely(from, to, fits) ==
    \/ from = to
    \/ <<from, to>> \in {<<"int8", "int32">>, <<"int8", "int64">>, <<"int32", "int64">>,
                         <<"int8", "float64">>, <<"int32", "float64">>}
    \/ fits

\* dtype.kind of a numeric dtype
Kind(d) == IF d = "float64" THEN "f" ELSE "i"
\* itemsize in bytes
ItemSize(d) == IF d = "int8" THEN 1 ELSE IF d = "int32" THEN 4 ELSE 8
\* max(dtype_l, dtype_r) of two numeric dtypes of one kind: the wider
MaxNumeric(dl, dr) == IF ItemSize(dl) >= ItemSize(dr) THEN dl ELSE dr
\* max(dtype_l, dtype_r) of two datetime dtypes: the finer unit
MaxDatetime(dl, dr) == IF "datetime64[ns]" \in {dl, dr} THEN "datetime64[ns]" ELSE dl
\* np.find_common_type([], [dtype_l, dtype_r]) of an integer and a float dtype
FindCommonType(dl, dr) == "float64"

NoDtype == "None"
CastResult(err, rtn, mark, warn) == [err |-> err, rtn |-> rtn, mark |-> mark, warn |-> warn]

\* casting_rules(lhs, rhs, dtype_l, dtype_r, how).  safe is what
\* can_cast_safely answers for the column tested; bound says whether the
\* enclosing function has already assigned lcol, rcol and to_categorical (it
\* has in the loop over the key pairs, it has not in index-join mode).
\* mark is the side whose column is appended to to_categorical and given a
\* codes column ("l", "r" or "none").
RECURSIVE casting_rules(_, _, _, _, _)
casting_rules(dtype_l, dtype_r, how, safe, bound) ==
    IF dtype_l = dtype_r THEN CastResult("none", dtype_l, "none", FALSE)
    ELSE IF is_categorical_dtype(dtype_l) /\ is_categorical_dtype(dtype_r)
         THEN CastResult("IncompatibleCategories", NoDtype, "none", FALSE)
    ELSE IF how = "left"
         THEN IF ~bound THEN CastResult("NameError", NoDtype, "none", FALSE)
              ELSE IF ~safe
                   THEN LET r == casting_rules(dtype_l, dtype_r, "inner", safe, bound)
                        IN  [r EXCEPT !.warn = (r.err = "none")]
              ELSE CastResult("none", dtype_l, "none", FALSE)
    ELSE IF how = "right"
         THEN IF ~bound THEN CastResult("NameError", NoDtype, "none", FALSE)
              ELSE IF ~safe
                   THEN LET r == casting_rules(dtype_l, dtype_r, "inner", safe, bound)
                        IN  [r EXCEPT !.warn = (r.err = "none")]
              ELSE CastResult("none", dtype_r, "none", FALSE)
    ELSE IF is_categorical_dtype(dtype_l)
         THEN IF ~bound THEN CastResult("NameError", NoDtype, "none", FALSE)
              ELSE IF how = "right" THEN CastResult("CategoricalDropped", NoDtype, "none", FALSE)
              ELSE CastResult("none", CategoriesDtype(dtype_l), "l", FALSE)
    ELSE IF is_categorical_dtype(dtype_r)
         THEN IF ~bound THEN CastResult("NameError", NoDtype, "none", FALSE)
              ELSE IF how = "left" THEN CastResult("CategoricalDropped", NoDtype, "none", FALSE)
              ELSE CastResult("none", CategoriesDtype(dtype_r), "r", FALSE)
    ELSE IF how \in {"inner", "outer"}
         THEN IF dtype_l \in NumericDtypes /\ dtype_r \in NumericDtypes
              THEN IF Kind(dtype_l) = Kind(dtype_r)
                   THEN CastResult("none", MaxNumeric(dtype_l, dtype_r), "none", FALSE)
                   ELSE CastResult("none", FindCommonType(dtype_l, dtype_r), "none", FALSE)
              ELSE IF is_datetime_dtype(dtype_l) /\ is_datetime_dtype(dtype_r)
                   THEN CastResult("none", MaxDatetime(dtype_l, dtype_r), "none", FALSE)
              ELSE CastResult("none", NoDtype, "none", FALSE)
    ELSE CastResult("none", NoDtype, "none", FALSE)

\* one turn of the loop of lines 690-704 for the pair (lcol, rcol); st holds
\* the tables, to_categorical, the pairs whose dtypes were compared, the
\* columns warned about and the error raised so far
TypecastPair(st, lcol, rcol, how, fits) ==
    IF st.err # "none" THEN st
    ELSE IF lcol \notin KeySet(st.lhs) \/ rcol \notin KeySet(st.rhs) THEN st
    ELSE
      LET dtype_l == DtypeOf(st.lhs, lcol)
          dtype_r == DtypeOf(st.rhs, rcol)
          tested == IF how = "left" THEN dtype_r ELSE dtype_l
          target == IF how = "left" THEN dtype_l ELSE dtype_r
          res == casting_rules(dtype_l, dtype_r, how,
                               CanCastSafely(tested, target, fits), TRUE)
          seen == [st EXCEPT !.pairs = Append(@, <<lcol, rcol>>)]
          lhs1 == IF res.mark = "l" THEN SetItem(st.lhs, lcol \o S_codes, CodesDtype) ELSE st.lhs
          rhs1 == IF res.mark = "r" THEN SetItem(st.rhs, rcol \o S_codes, CodesDtype) ELSE st.rhs
      IN  IF dtype_l = dtype_r THEN seen
          ELSE IF res.err # "none" THEN [seen EXCEPT !.err = res.err]
          ELSE [seen EXCEPT
                  !.lhs = IF res.rtn # NoDtype THEN SetItem(lhs1, lcol, res.rtn) ELSE lhs1,
                  !.rhs = IF res.rtn # NoDtype THEN SetItem(rhs1, rcol, res.rtn) ELSE rhs1,
                  !.to_categorical = IF res.mark = "l" THEN Append(@, lcol)
                                     ELSE IF res.mark = "r" THEN Append(@, rcol) ELSE @,
                  !.warnings = IF res.warn
                               THEN Append(@, IF how = "left" THEN rcol ELSE lcol) ELSE @]

\* the loop of lines 690-704 over zip(left_on, right_on), pairs from i on
RECURSIVE TypecastLoop(_, _, _, _, _)
TypecastLoop(st, pairs, i, how, fits) ==
    IF i > Len(pairs) THEN st
    ELSE TypecastLoop(TypecastPair(st, pairs[i][1], pairs[i][2], how, fits[i]),
                      pairs, i + 1, how, fits)

\* lines 687-690: the pairs the loop visits
TypecastPairs(lo, ro) == Zip(Sorted(lo), Sorted(ro))

TypecastStart(l, r, lidx, ridx) ==
    [lhs |-> l, rhs |-> r, lhs_index |-> lidx, rhs_index |-> ridx,
     to_categorical |-> <<>>, pairs |-> <<>>, warnings |-> <<>>, err |-> "none"]

\* what Index.astype(None) may do (it is outside this file): raise, or cast to
\* the dtype numpy reads None as
AstypeNone == {"raise", "float64"}

\* lines 674-685: index-join mode; casting_rules runs before lcol, rcol and
\* to_categorical are assigned.  A to_dtype of None goes to Index.astype,
\* whose outcome none_as is one of AstypeNone.
TypecastIndex(st, how, li, ri, none_as) ==
    LET res == IF li /\ ri
               THEN casting_rules(st.lhs_index, st.rhs_index, how, FALSE, FALSE)
               ELSE IF li THEN CastResult("none", st.lhs_index, "none", FALSE)
               ELSE CastResult("none", st.rhs_index, "none", FALSE)
    IN  IF res.err # "none" THEN [st EXCEPT !.err = res.err]
        ELSE IF res.rtn = NoDtype
             THEN IF none_as = "raise" THEN [st EXCEPT !.err = "AstypeNone"]
                  ELSE [st EXCEPT !.lhs_index = none_as, !.rhs_index = none_as]
        ELSE [st EXCEPT !.lhs_index = res.rtn, !.rhs_index = res.rtn]

\* _typecast_before_merge(lhs, rhs, left_on, right_on, left_index,
\* right_index, how): the tables, to_categorical and the error raised
TypecastBeforeMerge(l, r, lidx, ridx, lo, ro, li, ri, how, fits, none_as) ==
    IF li \/ ri THEN TypecastIndex(TypecastStart(l, r, lidx, ridx), how, li, ri, none_as)
    ELSE TypecastLoop(TypecastStart(l, r, lidx, ridx), TypecastPairs(lo, ro), 1, how, fits)

\* ------------------------------------------------ libcudfxx.join.join
\* The pairs of key columns the engine matches: positional, left_on[i] with
\* right_on[i]; an index stands for its side's key when that side joins on
\* its index.  Each is the pair of dtypes, "missing" for an absent column.
KeyDtype(t, name) == IF name \in KeySet(t) THEN DtypeOf(t, name) ELSE "missing"

EnginePairs(l, r, lidx, ridx, lo, ro, li, ri) ==
    IF li /\ ri THEN {<<lidx, ridx>>}
    ELSE IF li THEN {<<lidx, KeyDtype(r, ro[i])>> : i \in DOMAIN ro}
    ELSE IF ri THEN {<<KeyDtype(l, lo[i]), ridx>> : i \in DOMAIN lo}
    ELSE {<<KeyDtype(l, lo[i]), KeyDtype(r, ro[i])>> : i \in DOMAIN lo \cap DOMAIN ro}

\* the engine rejects a key that names no column of its table (it looks every
\* key up by name) and a key pair whose dtypes differ
EngineRejects(l, r, lidx, ridx, lo, ro, li, ri) ==
    \/ \E i \in DOMAIN lo : lo[i] \notin KeySet(l)
    \/ \E i \in DOMAIN ro : ro[i] \notin KeySet(r)
    \/ \E p \in EnginePairs(l, r, lidx, ridx, lo, ro, li, ri) : p[1] # p[2]

\* the columns of the flat result, in the order of the inputs: every column
\* of lhs, then every column of rhs whose name lhs does not have (a key of
\* the same name on both sides comes back once)
RECURSIVE SelectNew(_, _)
SelectNew(cols, have) ==
    IF cols = <<>> THEN <<>>
    ELSE IF Head(cols).name \in have THEN SelectNew(Tail(cols), have)
    ELSE <<Head(cols)>> \o SelectNew(Tail(cols), have)

EngineColumns(l, r) == l \o SelectNew(r, KeySet(l))

Reverse(s) == [i \in DOMAIN s |-> s[Len(s) + 1 - i]]
Rotate(s, k) == [i \in DOMAIN s |-> s[((i - 1 + k) % Len(s)) + 1]]
\* the result's columns come back in an order the engine chooses
EngineOrder(cols, k, rev) ==
    IF cols = <<>> THEN cols
    ELSE IF rev THEN Reverse(Rotate(cols, k)) ELSE Rotate(cols, k)

\* the engine's result: its columns in the chosen order; a test double for
\* the engine adds a column no input has, in front or at the end
JoinEngine(l, r, k, rev, extra) ==
    LET out == EngineOrder(EngineColumns(l, r), k, rev)
        col == [name |-> N_extra, dtype |-> "int64"]
    IN  IF extra = "front" THEN <<col>> \o out
        ELSE IF extra = "back" THEN Append(out, col)
        ELSE out

\* --------------------------------------------- Frame._merge, lines 541-610
\* for i in range(len(gdf_data)): if gdf_data[i][0] == name: ... pop(i); break
\* (0 when no column has the name)
FindByName(pool, name) == IndexOf(Keys(pool), name)

\* a loop "for name in names: if wanted(name): <pop the column called name
\* and append it to acc>" ; st = [pool, acc]
RECURSIVE PopEach(_, _, _)
PopEach(st, names, wanted) ==
    IF names = <<>> THEN st
    ELSE LET name == Head(names)
             i == FindByName(st.pool, name)
         IN  PopEach(IF name \in wanted /\ i # 0
                     THEN [pool |-> RemoveAt(st.pool, i), acc |-> Append(st.acc, st.pool[i])]
                     ELSE st,
                     Tail(names), wanted)

\* lines 581-583 for one cat_name: i runs over range(n) with n the length of
\* gdf_data when the loop starts; there is no break after pop(i), so
\* gdf_data[i] raises IndexError once i passes the shortened list
RECURSIVE CodesInner(_, _, _, _)
CodesInner(st, target, i, n) ==
    IF st.err # "none" \/ i > n THEN st
    ELSE IF i > Len(st.pool) THEN [st EXCEPT !.err = "IndexError"]
    ELSE IF st.pool[i].name = target
         THEN CodesInner([st EXCEPT !.pool = RemoveAt(st.pool, i),
                                    !.acc = Append(st.acc, st.pool[i])],
                         target, i + 1, n)
    ELSE CodesInner(st, target, i + 1, n)

\* lines 580-583: for cat_name in to_categorical
RECURSIVE CodesLoop(_, _)
CodesLoop(st, cats) ==
    IF cats = <<>> \/ st.err # "none" THEN st
    ELSE CodesLoop(CodesInner(st, Head(cats) \o S_codes, 1, Len(st.pool)), Tail(cats))

\* lines 545-584: result, cat_codes, what is left of gdf_data, and the error
AssembleColumns(gdf, l, r, lo, ro, org_names, to_cat, sort) ==
    IF sort
    THEN LET left_of_on == PopEach([pool |-> gdf, acc |-> <<>>], Keys(l), KeySet(l) \ Range(lo))
             in_on == PopEach([pool |-> left_of_on.pool, acc |-> <<>>], Keys(l) \o Keys(r),
                              Range(lo) \cup Range(ro))
             right_of_on == PopEach([pool |-> in_on.pool, acc |-> <<>>], Keys(r),
                                    KeySet(r) \ Range(ro))
         IN  [err |-> "none",
              result |-> SortedCols(left_of_on.acc) \o SortedCols(in_on.acc)
                           \o SortedCols(right_of_on.acc),
              cat_codes |-> <<>>,
              gdf_data |-> right_of_on.pool]
    ELSE LET placed == PopEach([pool |-> gdf, acc |-> <<>>], org_names, Range(org_names))
             codes == CodesLoop([pool |-> placed.pool, acc |-> <<>>, err |-> "none"], to_cat)
         IN  [err |-> IF codes.err # "none" THEN codes.err
                      ELSE IF Len(codes.pool) # 0 THEN "AssertionError"
                      ELSE "none",
              result |-> placed.acc,
              cat_codes |-> codes.acc,
              gdf_data |-> codes.pool]

\* lines 588-607: the column built for (name, col) of result.  codes names
\* the engine column the categorical's codes are taken from (<<>> when the
\* column built is not categorical).
BuildColumn(col, cat_codes, cat_dtypes) ==
    LET declared == IF col.name \in DOMAIN cat_dtypes THEN cat_dtypes[col.name] ELSE col.dtype
    IN  IF is_string_dtype(col.dtype)
        THEN [name |-> col.name, dtype |-> col.dtype, codes |-> <<>>]
        ELSE IF is_categorical_dtype(declared)
        THEN [name |-> col.name, dtype |-> declared,
              codes |-> IF (col.name \o S_codes) \in Range(Keys(cat_codes))
                        THEN col.name \o S_codes ELSE col.name]
        ELSE [name |-> col.name, dtype |-> declared, codes |-> <<>>]

\* to_frame_data
BuildFrame(result_cols, cat_codes, cat_dtypes) ==
    [i \in DOMAIN result_cols |-> BuildColumn(result_cols[i], cat_codes, cat_dtypes)]

\* ------------------------------------------------------------------- state
VARIABLES
    req,                 \* the arguments of _merge, as the caller passed them
    pc,                  \* where _merge is: start, validated, renamed, cast,
                         \* joined, done, error
    err,                 \* the error _merge raised, "none" while it has none
    lhs, rhs,            \* self._data and right._data (renamed and cast in place)
    lhs_index, rhs_index,\* dtype of self.index and right.index, or MultiIndex
    left_on, right_on,   \* the locals left_on and right_on
    org_names,           \* line 514
    categorical_dtypes,  \* lines 508-511
    to_categorical,      \* keys marked for code substitution
    cast_pairs,          \* (lcol, rcol) pairs whose dtypes the loop of line 690 compared
    warnings,            \* columns a cast warning was issued for
    engine_keys,         \* the left_on and right_on handed to the join engine
    engine_out,          \* gdf_result._data as the engine returned it
    gdf_data,            \* the local gdf_data: engine columns not yet consumed
    cat_codes,           \* the local cat_codes
    result               \* the columns of the returned frame (to_frame_data)

vars == <<req, pc, err, lhs, rhs, lhs_index, rhs_index, left_on, right_on, org_names,
          categorical_dtypes, to_categorical, cast_pairs, warnings, engine_keys,
          engine_out, gdf_data, cat_codes, result>>

\* ------------------------------------------------------------------ inputs
SeqsUpTo(S, n) == UNION {[1..m -> S] : m \in 0..n}
NoDuplicates(s) == \A i, j \in DOMAIN s : s[i] = s[j] => i = j
\* the orders a set can be iterated in
Perms(S) == {s \in [1..Cardinality(S) -> S] : NoDuplicates(s)}
\* the column-name lists of the tables over the names U
Shapes(U) == {s \in SeqsUpTo(U, MaxCols) : s # <<>> /\ NoDuplicates(s)}

LhsNames == {N_a, N_b, N_id, N_x}
RhsNames == {N_id, N_x, N_y, N_z}

\* a table with the given column names, every column int64 but those typed
Table(names, typed) ==
    [i \in DOMAIN names |->
        [name |-> names[i],
         dtype |-> IF names[i] \in DOMAIN typed THEN typed[names[i]] ELSE "int64"]]
Plain(names) == Table(names, <<>>)

SuffixPairs == {<<NoSuffix, NoSuffix>>, <<Suffix(S_l), Suffix(S_r)>>, <<Suffix(S_l), Suffix(S_empty)>>}

Request(l, r, lidx, ridx, o, lo, ro, li, ri, sfx, h, srt) ==
    [lhs |-> l, rhs |-> r, lhs_index |-> lidx, rhs_index |-> ridx,
     on |-> o, left_on |-> lo, right_on |-> ro, left_index |-> li, right_index |-> ri,
     lsuffix |-> sfx[1], rsuffix |-> sfx[2], how |-> h, sort |-> srt]

\* Requests over two pairs of int64 tables in which every argument of the
\* merge varies: key lists (with repeated names), on, how (with the
\* unsupported "right"), the index flags, the suffixes, sort, a MultiIndex.
ArgumentRequest ==
    \E t \in {<<<<N_a, N_id>>, <<N_id, N_y>>>>,
              <<<<N_a, N_id, N_x>>, <<N_id, N_x, N_y>>>>},
       v \in {<<"int64", FALSE>>, <<"int64", TRUE>>, <<MultiIndex, FALSE>>},
       o \in {<<>>, <<N_id>>},
       lo \in SeqsUpTo({N_a, N_id}, MaxKeys),
       ro \in SeqsUpTo({N_id, N_y}, MaxKeys),
       li \in BOOLEAN, ri \in BOOLEAN,
       sfx \in SuffixPairs,
       h \in {"left", "inner", "outer", "right"} :
        req = Request(Plain(t[1]), Plain(t[2]), v[1], "int64", o, lo, ro, li, ri, sfx, h, v[2])

\* Requests over every pair of int64 tables of up to MaxCols columns, in every
\* column order, joined on "id", on nothing named, or on a against y.
ShapeRequest ==
    \E l \in Shapes(LhsNames), r \in Shapes(RhsNames),
       k \in {<<<<N_id>>, <<>>, <<>>>>, <<<<>>, <<>>, <<>>>>, <<<<>>, <<N_a>>, <<N_y>>>>},
       srt \in BOOLEAN :
        req = Request(Plain(l), Plain(r), "int64", "int64", k[1], k[2], k[3], FALSE, FALSE,
                      <<Suffix(S_l), Suffix(S_r)>>, "inner", srt)

KeyDtypes == {"int32", "int64", "float64", "object", "datetime64[ms]", "datetime64[ns]",
              "category[int64]", "category[int32]"}

\* Requests over tables (id, x) whose key columns take every pair of dtypes,
\* joined on one or on both of them.
DtypeRequest ==
    \E d \in KeyDtypes \X {"int64", "category[int64]"} \X KeyDtypes,
       o \in {<<N_id>>, <<N_id, N_x>>, <<N_x, N_id>>},
       h \in {"left", "inner", "outer", "right"},
       srt \in BOOLEAN :
        req = Request(Table(<<N_id, N_x>>, (N_id :> d[1]) @@ (N_x :> d[2])),
                      Table(<<N_id, N_x>>, (N_id :> d[3]) @@ (N_x :> "int64")),
                      "int64", "int64", o, <<>>, <<>>, FALSE, FALSE,
                      <<Suffix(S_l), Suffix(S_r)>>, h, srt)

\* Requests joining on two differently named key pairs of mixed width, the
\* keys listed in either order on each side; without common columns, also
\* with nothing to join on.
PairingRequest ==
    \E d \in {"int32", "int64"} \X {"int32", "int64"} \X {"int32", "int64"} \X {"int32", "int64"},
       lo \in {<<>>, <<N_a, N_b>>, <<N_b, N_a>>},
       ro \in {<<>>, <<N_y, N_z>>, <<N_z, N_y>>},
       h \in {"left", "inner"},
       srt \in BOOLEAN :
        req = Request(Table(<<N_a, N_b>>, (N_a :> d[1]) @@ (N_b :> d[2])),
                      Table(<<N_y, N_z>>, (N_y :> d[3]) @@ (N_z :> d[4])),
                      "int64", "int64", <<>>, lo, ro, FALSE, FALSE,
                      <<NoSuffix, NoSuffix>>, h, srt)

\* the documented example of the sorted column order: columns [b, a, id] and
\* [id, z, y] joined on id
ExampleRequest ==
    \E srt \in BOOLEAN :
        req = Request(Plain(<<N_b, N_a, N_id>>), Plain(<<N_id, N_z, N_y>>), "int64", "int64",
                      <<N_id>>, <<>>, <<>>, FALSE, FALSE, <<Suffix(S_l), Suffix(S_r)>>,
                      "inner", srt)

\* Requests joining on the index of one side or of both, the two indexes and
\* the key column of the other side taking every pair of dtypes.
IndexRequest ==
    \E d \in KeyDtypes \X KeyDtypes,
       c \in {"int64", "int32"},
       k \in {<<TRUE, TRUE, <<>>, <<>>>>, <<TRUE, FALSE, <<>>, <<N_y>>>>,
              <<FALSE, TRUE, <<N_a>>, <<>>>>},
       h \in {"left", "inner", "outer"},
       srt \in BOOLEAN :
        req = Request(Table(<<N_a, N_b>>, (N_a :> c) @@ (N_b :> "int64")),
                      Table(<<N_y, N_z>>, (N_y :> c) @@ (N_z :> "int64")),
                      d[1], d[2], <<>>, k[3], k[4], k[1], k[2],
                      <<NoSuffix, NoSuffix>>, h, srt)

\* -------------------------------------------------------------------- Init
Init ==
    /\ \/ ArgumentRequest
       \/ IndexRequest
       \/ ShapeRequest
       \/ DtypeRequest
       \/ PairingRequest
       \/ ExampleRequest
    /\ pc = "start"
    /\ err = "none"
    /\ lhs = req.lhs
    /\ rhs = req.rhs
    /\ lhs_index = req.lhs_index
    /\ rhs_index = req.rhs_index
    /\ left_on = req.left_on
    /\ right_on = req.right_on
    /\ org_names = <<>>
    /\ categorical_dtypes = <<>>
    /\ to_categorical = <<>>
    /\ cast_pairs = <<>>
    /\ warnings = <<>>
    /\ engine_keys = <<>>
    /\ engine_out = <<>>
    /\ gdf_data = <<>>
    /\ cat_codes = <<>>
    /\ result = <<>>

\* ----------------------------------------------------------------- actions
\* _merge lines 457-483: the key arguments become lists, the request is validated
Validate ==
    /\ pc = "start"
    /\ LET e == ValidateMergeCfg(lhs, rhs, lhs_index, rhs_index, left_on, right_on, req.on,
                                 req.how, req.left_index, req.right_index,
                                 req.lsuffix, req.rsuffix)
       IN  /\ pc' = IF e = "ok" THEN "validated" ELSE "error"
           /\ err' = IF e = "ok" THEN "none" ELSE e
    /\ UNCHANGED <<req, lhs, rhs, lhs_index, rhs_index, left_on, right_on, org_names,
                   categorical_dtypes, to_categorical, cast_pairs, warnings, engine_keys,
                   engine_out, gdf_data, cat_codes, result>>

\* _merge lines 485-523: key lists resolved, overlapping names suffixed,
\* categorical dtypes and the original column order recorded
Resolve ==
    /\ pc = "validated"
    /\ \E order \in Perms(SameNamedColumns(lhs, rhs)) :
         LET st == ResolveSuffixes(lhs, rhs, left_on, right_on, req.on, req.left_index,
                                   req.right_index, req.lsuffix, req.rsuffix, order)
         IN  /\ lhs' = st.lhs
             /\ rhs' = st.rhs
             /\ left_on' = st.left_on
             /\ right_on' = st.right_on
             /\ categorical_dtypes' = CategoricalDtypesOf(st.lhs, st.rhs)
             /\ org_names' = OrgNames(st.lhs, st.rhs)
    /\ pc' = "renamed"
    /\ UNCHANGED <<req, err, lhs_index, rhs_index, to_categorical, cast_pairs, warnings,
                   engine_keys, engine_out, gdf_data, cat_codes, result>>

\* _merge lines 525-528: _typecast_before_merge
Typecast ==
    /\ pc = "renamed"
    /\ \E fits \in [1..Len(TypecastPairs(left_on, right_on)) -> BOOLEAN],
          none_as \in AstypeNone :
         LET st == TypecastBeforeMerge(lhs, rhs, lhs_index, rhs_index, left_on, right_on,
                                       req.left_index, req.right_index, req.how, fits,
                                       none_as)
         IN  /\ lhs' = st.lhs
             /\ rhs' = st.rhs
             /\ lhs_index' = st.lhs_index
             /\ rhs_index' = st.rhs_index
             /\ to_categorical' = st.to_categorical
             /\ cast_pairs' = st.pairs
             /\ warnings' = st.warnings
             /\ err' = st.err
             /\ pc' = IF st.err = "none" THEN "cast" ELSE "error"
    /\ UNCHANGED <<req, left_on, right_on, org_names, categorical_dtypes, engine_keys,
                   engine_out, gdf_data, cat_codes, result>>

\* _merge lines 530-541: the join engine is called and its columns listed
Join ==
    /\ pc = "cast"
    /\ engine_keys' = <<left_on, right_on>>
    /\ \E k \in 0..MaxRot, rev \in BOOLEAN, extra \in {"none", "back"} :
         LET rejected == EngineRejects(lhs, rhs, lhs_index, rhs_index, left_on, right_on,
                                       req.left_index, req.right_index)
             out == IF rejected THEN <<>> ELSE JoinEngine(lhs, rhs, k, rev, extra)
         IN  /\ engine_out' = out
             /\ gdf_data' = out
             /\ err' = IF rejected THEN "EngineError" ELSE "none"
             /\ pc' = IF rejected THEN "error" ELSE "joined"
    /\ UNCHANGED <<req, lhs, rhs, lhs_index, rhs_index, left_on, right_on, org_names,
                   categorical_dtypes, to_categorical, cast_pairs, warnings, cat_codes,
                   result>>

\* _merge lines 543-610: the result frame is assembled from the engine's columns
Assemble ==
    /\ pc = "joined"
    /\ LET st == AssembleColumns(gdf_data, lhs, rhs, left_on, right_on, org_names,
                                 to_categorical, req.sort)
       IN  /\ gdf_data' = st.gdf_data
           /\ cat_codes' = st.cat_codes
           /\ err' = st.err
           /\ pc' = IF st.err = "none" THEN "done" ELSE "error"
           /\ result' = IF st.err = "none"
                        THEN BuildFrame(st.result, st.cat_codes, categorical_dtypes)
                        ELSE <<>>
    /\ UNCHANGED <<req, lhs, rhs, lhs_index, rhs_index, left_on, right_on, org_names,
                   categorical_dtypes, to_categorical, cast_pairs, warnings, engine_keys,
                   engine_out>>

Next == Validate \/ Resolve \/ Typecast \/ Join \/ Assemble

Spec == Init /\ [][Next]_vars

\* =================================================================== claims
Names(cols) == [i \in DOMAIN cols |-> cols[i].name]
NameSet(cols) == {cols[i].name : i \in DOMAIN cols}
\* _merge has ended, by returning or by raising
Ended == pc \in {"done", "error"}
\* the join engine has returned its columns
EngineReturned == pc \in {"joined", "done"} \/ (pc = "error" /\ engine_out # <<>>)
\* neither side joins on its index
KeyColumnMode == ~(req.left_index \/ req.right_index)
\* the request names its keys (through on or through left_on / right_on)
KeysNamed == req.on # <<>> \/ req.left_on # <<>> \/ req.right_on # <<>>
\* the key lists the request names
ReqLeftOn == IF req.on # <<>> THEN req.on ELSE req.left_on
ReqRightOn == IF req.on # <<>> THEN req.on ELSE req.right_on
\* name is at one position of both lists
SamePosition(name, lo, ro) == \E i \in DOMAIN lo \cap DOMAIN ro : lo[i] = name /\ ro[i] = name

\* ---------------------------------------------------------------------- C1
\* C1 (as stated): in key-column mode the pairs of columns whose dtypes
\* _typecast_before_merge compares and unifies are exactly the positional
\* pairs (left_on[i], right_on[i]) the join engine is given.
C1_PairsArePositional ==
    (KeyColumnMode /\ engine_keys # <<>> /\ Len(engine_keys[1]) = Len(engine_keys[2])
       /\ NoDuplicates(engine_keys[1]) /\ NoDuplicates(engine_keys[2]))
    => Range(cast_pairs) = Range(Zip(engine_keys[1], engine_keys[2]))

\* ---------------------------------------------------------------------- C2
\* a key pair of the request is categorical on the left and numeric on the right
CategoricalLeftNumericRight ==
    /\ KeysNamed
    /\ \E i \in DOMAIN ReqLeftOn \cap DOMAIN ReqRightOn :
         /\ ReqLeftOn[i] \in KeySet(req.lhs)
         /\ ReqRightOn[i] \in KeySet(req.rhs)
         /\ is_categorical_dtype(DtypeOf(req.lhs, ReqLeftOn[i]))
         /\ DtypeOf(req.rhs, ReqRightOn[i]) \in NumericDtypes

\* name ends with "_codes"
IsCodesName(name) ==
    /\ Len(name) > Len(S_codes)
    /\ SubSeq(name, Len(name) - Len(S_codes) + 1, Len(name)) = S_codes

\* C2 (as stated): when a join key is categorical on the left and plain
\* numeric on the right and how is inner or outer, no column named
\* "<key>_codes" is among the columns of the returned table, for sort=False and
\* for sort=True.
C2_NoCodesColumnReturned ==
    (CategoricalLeftNumericRight /\ req.how \in {"inner", "outer"} /\ pc = "done")
    => \A i \in DOMAIN result : ~IsCodesName(result[i].name)

\* ---------------------------------------------------------------------- C3
\* a single key pair with exactly one categorical side, which the requested
\* how would drop
CategoricalSideDropped ==
    /\ KeyColumnMode
    /\ Len(ReqLeftOn) = 1 /\ Len(ReqRightOn) = 1
    /\ ReqLeftOn[1] \in KeySet(req.lhs)
    /\ ReqRightOn[1] \in KeySet(req.rhs)
    /\ LET dl == DtypeOf(req.lhs, ReqLeftOn[1])
           dr == DtypeOf(req.rhs, ReqRightOn[1])
       IN  \/ (is_categorical_dtype(dl) /\ ~is_categorical_dtype(dr) /\ req.how = "right")
           \/ (is_categorical_dtype(dr) /\ ~is_categorical_dtype(dl) /\ req.how = "left")

\* C3 (as stated): such a merge fails with the CategoricalDropped error, with
\* no other error kind and without a successful cast.
C3_FailsWithCategoricalDropped ==
    (CategoricalSideDropped /\ pc \notin {"start", "validated", "renamed"})
    => (pc = "error" /\ err = "CategoricalDropped")

\* ---------------------------------------------------------------------- C4
\* the checks _validate_merge_cfg makes before the overlap check pass
EarlierChecksPass ==
    /\ req.lhs_index # MultiIndex /\ req.rhs_index # MultiIndex
    /\ req.how \in {"left", "inner", "outer"}
    /\ ~(req.on # <<>> /\ (req.left_on # <<>> \/ req.right_on # <<>>))
    /\ Len(req.left_on) + Bool2Int(req.left_index) = Len(req.right_on) + Bool2Int(req.right_index)
    /\ ~(KeyColumnMode /\ ~KeysNamed /\ SameNamedColumns(req.lhs, req.rhs) = {})

\* name is a congruent join key of the request: at the same position of both
\* resolved key lists
CongruentKey(name) == SamePosition(name, ReqLeftOn, ReqRightOn)

\* C4 (as stated): given that the earlier checks pass, validation of a request
\* that names its keys (through on or through left_on/right_on) raises
\* AmbiguousOverlap exactly when no suffix was supplied and the tables share a
\* column name that is not a congruent join key of the request.
C4_AmbiguousOverlapExactly ==
    (EarlierChecksPass /\ KeysNamed /\ pc # "start")
    => ((err = "AmbiguousOverlap")
          <=> (/\ ~(Truthy(req.lsuffix) \/ Truthy(req.rsuffix))
               /\ \E name \in SameNamedColumns(req.lhs, req.rhs) : ~CongruentKey(name)))

\* ---------------------------------------------------------------------- C5
\* the engine returned a column that is neither a column of the tables before
\* the join nor the codes column of a key marked for code substitution
UnplaceableColumn ==
    \E i \in DOMAIN engine_out :
        /\ engine_out[i].name \notin Range(org_names)
        /\ \A j \in DOMAIN to_categorical : engine_out[i].name # to_categorical[j] \o S_codes

\* C5 (as stated): whenever the engine's output holds a column the assembler
\* cannot place, _merge fails with the assertion error instead of returning a
\* table, for sort=False and for sort=True.
C5_UnplaceableColumnFails ==
    (EngineReturned /\ Ended /\ UnplaceableColumn)
    => (pc = "error" /\ err = "AssertionError")

\* ---------------------------------------------------------------------- C6
KeyCountsDiffer ==
    Len(req.left_on) + Bool2Int(req.left_index) # Len(req.right_on) + Bool2Int(req.right_index)

\* a check _validate_merge_cfg makes before it counts the keys fails
CheckBeforeCountFails ==
    \/ req.lhs_index = MultiIndex \/ req.rhs_index = MultiIndex
    \/ req.how \notin {"left", "inner", "outer"}
    \/ (req.on # <<>> /\ (req.left_on # <<>> \/ req.right_on # <<>>))

\* nothing was renamed, cast or handed to the join engine
NothingDone ==
    /\ lhs = req.lhs /\ rhs = req.rhs
    /\ lhs_index = req.lhs_index /\ rhs_index = req.rhs_index
    /\ left_on = req.left_on /\ right_on = req.right_on
    /\ cast_pairs = <<>> /\ to_categorical = <<>>
    /\ engine_keys = <<>> /\ engine_out = <<>> /\ result = <<>>

\* C6 (as stated): every request whose key counts differ is rejected with
\* KeyCountMismatch, whatever its other fields are.
C6_AlwaysKeyCountMismatch ==
    (KeyCountsDiffer /\ pc # "start") => (pc = "error" /\ err = "KeyCountMismatch")

\* C6 (amended): every request whose key counts differ is rejected by
\* _validate_merge_cfg and never reaches renaming, casting or the join engine;
\* the error is KeyCountMismatch unless one of the checks made before the
\* count (MultiIndex, unsupported how, on together with left_on/right_on)
\* fails, and then it is that check's error.
C6_KeyCountMismatchRejected ==
    KeyCountsDiffer
    => /\ pc \in {"start", "error"}
       /\ NothingDone
       /\ pc = "error" =>
            /\ err \in {"UnsupportedKeyStructure", "UnsupportedJoinKind", "AmbiguousKeySpec",
                        "KeyCountMismatch"}
            /\ (err = "KeyCountMismatch") <=> ~CheckBeforeCountFails

\* a request that differs in nothing but its key counts was rejected for them
C6_Witness ==
    /\ KeyCountsDiffer /\ ~CheckBeforeCountFails
    /\ req.sort /\ Truthy(req.lsuffix)
    /\ pc = "error" /\ err = "KeyCountMismatch"

\* ---------------------------------------------------------------------- C7
\* the number of returned columns called name
Occurrences(name) == Cardinality({j \in DOMAIN result : result[j].name = name})

\* name was not renamed in either table and is returned once
KeptAndReturnedOnce(name) ==
    /\ name \in KeySet(lhs)
    /\ name \in KeySet(rhs)
    /\ Occurrences(name) = 1

\* C7 (as stated): for every valid merge, a congruent key (a column name of
\* both tables at the same position in left_on and right_on) is not renamed in
\* either table, keeps its unsuffixed name in both key lists and appears
\* exactly once among the columns of the returned table.
C7_CongruentKeyKept ==
    pc = "done"
    => \A name \in SameNamedColumns(req.lhs, req.rhs) :
         IF KeysNamed \/ ~KeyColumnMode
         THEN CongruentKey(name)
              => /\ KeptAndReturnedOnce(name)
                 /\ \A i \in DOMAIN ReqLeftOn \cap DOMAIN ReqRightOn :
                      (ReqLeftOn[i] = name /\ ReqRightOn[i] = name)
                      => (left_on[i] = name /\ right_on[i] = name)
         ELSE /\ KeptAndReturnedOnce(name)
              /\ name \in Range(left_on)
              /\ left_on = right_on

\* ---------------------------------------------------------------------- C8
\* the column names of the two tables before the join, after renaming: the
\* left table's in their order, then the right table's (codes columns are
\* appended behind them by the cast)
PreJoinNames ==
    SubSeq(Keys(lhs), 1, Len(req.lhs)) \o SubSeq(Keys(rhs), 1, Len(req.rhs))

\* lhs {id, x}, rhs {id, x}, on = "id", how = "inner", suffixes "_l", "_r"
IsSuffixExample ==
    /\ req.lhs = Plain(<<N_id, N_x>>) /\ req.rhs = Plain(<<N_id, N_x>>)
    /\ req.on = <<N_id>> /\ req.how = "inner"
    /\ req.lsuffix = Suffix(S_l) /\ req.rsuffix = Suffix(S_r)

\* C8: with sort=False the returned columns are in the pre-join name order:
\* the renamed left table's names in their order, then the right table's,
\* each name taken at most once from the engine's output; the example gives
\* [id, x_l, x_r].
C8_PreJoinOrder ==
    (pc = "done" /\ ~req.sort)
    => LET R == Names(result)
       IN  /\ NoDuplicates(R)
           /\ Range(R) = Range(PreJoinNames) \cap NameSet(engine_out)
           /\ \A i, j \in DOMAIN R :
                i < j => IndexOf(PreJoinNames, R[i]) < IndexOf(PreJoinNames, R[j])
           /\ IsSuffixExample => R = <<N_id, N_x \o S_l, N_x \o S_r>>

\* the example merge returned [id, x_l, x_r] from an engine that listed its
\* columns in another order
C8_Witness ==
    /\ pc = "done" /\ ~req.sort /\ IsSuffixExample
    /\ Names(result) = <<N_id, N_x \o S_l, N_x \o S_r>>
    /\ Names(engine_out) # Names(result)

\* ---------------------------------------------------------------------- C9
\* the names of S in ascending order
SortSet(S) == CHOOSE s \in Perms(S) : \A i, j \in DOMAIN s : i < j => StrLess(s[i], s[j])

\* lhs [b, a, id], rhs [id, z, y], key id
IsSortExample ==
    /\ req.lhs = Plain(<<N_b, N_a, N_id>>) /\ req.rhs = Plain(<<N_id, N_z, N_y>>)
    /\ req.on = <<N_id>>

\* the columns of the left table and of the right table before the join,
\* after renaming (the "<key>_codes" columns the cast appends are not among them)
LeftColumns == Range(SubSeq(Keys(lhs), 1, Len(req.lhs)))
RightColumns == Range(SubSeq(Keys(rhs), 1, Len(req.rhs)))

\* C9 (as stated): with sort=True the returned columns are (a) the left
\* table's columns that are not join keys, (b) the join-key columns, each
\* once, (c) the right table's columns that are not join keys, each group
\* sorted by name and the groups in this order; the example gives
\* [a, b, id, y, z].
C9_SortedGroups ==
    (pc = "done" /\ req.sort)
    => LET E == NameSet(engine_out)
           A == {n \in LeftColumns : n \notin Range(left_on)} \cap E
           B == ({n \in LeftColumns : n \in Range(left_on)}
                   \cup {n \in RightColumns : n \in Range(right_on)}) \cap E
           C == {n \in RightColumns : n \notin Range(right_on)} \cap E
       IN  /\ Names(result) = SortSet(A) \o SortSet(B) \o SortSet(C)
           /\ IsSortExample => Names(result) = <<N_a, N_b, N_id, N_y, N_z>>

\* --------------------------------------------------------------------- C10
\* the engine returned the columns of its contract and no other
EngineOnContract == EngineReturned /\ N_extra \notin NameSet(engine_out)

\* C10 (as stated): for every key marked for code substitution (any number of
\* them, any order of the codes columns in the engine's output, sort=False or
\* sort=True) assembly does not fail, takes the key's "<name>_codes" column out
\* of the unconsumed columns and builds the key's categorical column from
\* those codes, not from the key's value column.
C10_CodesRebuilt ==
    (EngineOnContract /\ Ended /\ to_categorical # <<>>)
    => /\ pc = "done"
       /\ \A j \in DOMAIN to_categorical :
            LET codes == to_categorical[j] \o S_codes
            IN  /\ codes \in NameSet(cat_codes)
                /\ codes \notin NameSet(gdf_data)
                /\ \E i \in DOMAIN result :
                     /\ result[i].name = to_categorical[j]
                     /\ is_categorical_dtype(result[i].dtype)
                     /\ result[i].codes = codes

\* --------------------------------------------------------------------- C11
\* suffix resolution (lines 485-506) has acted and nothing after it has
SuffixesResolved == pc = "renamed"

\* entry i of the resolved key list on names a column of the renamed table
\* tbl, and that column is the one entry i of the list before named in the
\* table orig as it was before renaming (renaming keeps a column's position)
DenotesSameColumn(on, before, tbl, orig, i) ==
    /\ on[i] \in KeySet(tbl)
    /\ before[i] \in KeySet(orig)
    /\ IndexOf(Keys(tbl), on[i]) = IndexOf(Keys(orig), before[i])

\* C11 (as stated): after suffix resolution left_on and right_on have the
\* lengths they had before, every entry of left_on names a column of the
\* renamed left table and every entry of right_on a column of the renamed
\* right table, and entry i of each list denotes the column it denoted before
\* renaming; also when a shared name is in one key list only, at different
\* positions of the two lists, or more than once in a list. (Keys chosen
\* implicitly are the shared names, which are then the same list on both sides.)
C11_KeyCorrespondencePreserved ==
    SuffixesResolved
    => IF KeysNamed \/ ~KeyColumnMode
       THEN /\ Len(left_on) = Len(ReqLeftOn)
            /\ Len(right_on) = Len(ReqRightOn)
            /\ \A i \in DOMAIN left_on :
                 DenotesSameColumn(left_on, ReqLeftOn, lhs, req.lhs, i)
            /\ \A i \in DOMAIN right_on :
                 DenotesSameColumn(right_on, ReqRightOn, rhs, req.rhs, i)
       ELSE /\ left_on = right_on
            /\ Range(left_on) = SameNamedColumns(req.lhs, req.rhs)
            /\ Len(left_on) = Cardinality(SameNamedColumns(req.lhs, req.rhs))
            /\ \A i \in DOMAIN left_on :
                 /\ DenotesSameColumn(left_on, left_on, lhs, req.lhs, i)
                 /\ DenotesSameColumn(right_on, right_on, rhs, req.rhs, i)

\* --------------------------------------------------------------------- C12
\* _typecast_before_merge has acted, by returning or by raising, and nothing
\* after it has
TypecastActed ==
    \/ pc = "cast"
    \/ (pc = "error" /\ org_names # <<>> /\ engine_keys = <<>>)

\* the number of key pairs in index-join mode: the two indexes, or the index
\* of one side against each key column of the other
IndexKeyPairs ==
    IF req.left_index /\ req.right_index THEN 1
    ELSE IF req.left_index THEN Len(right_on) ELSE Len(left_on)

\* the dtypes of the two sides' join keys of pair i, the indexes having the
\* dtypes lidx and ridx
KeyPairDtypes(i, lidx, ridx) ==
    <<IF req.left_index THEN lidx ELSE KeyDtype(lhs, left_on[i]),
      IF req.right_index THEN ridx ELSE KeyDtype(rhs, right_on[i])>>

\* every entry of the key lists names a column of its table
KeysAreColumns == Range(left_on) \subseteq KeySet(lhs) /\ Range(right_on) \subseteq KeySet(rhs)

\* what the casting-rule algorithm gives for the dtypes dl and dr and the
\* requested how, for either answer of the safe-cast test
RuleOutcomes(dl, dr) ==
    {casting_rules(dl, dr, req.how,
                   CanCastSafely(IF req.how = "left" THEN dr ELSE dl,
                                 IF req.how = "left" THEN dl ELSE dr, f), TRUE) :
       f \in BOOLEAN}

\* C12 (as stated): in index-join mode _typecast_before_merge computes one
\* target dtype T for the key pair by the casting-rule algorithm applied to
\* the two sides' key dtypes and the requested how (left, inner or outer),
\* casts both sides' join keys to T, ends without an internal error and
\* returns an empty code-substitution list, no "_codes" column being added to
\* either table.  (Two different categorical dtypes fail with
\* IncompatibleCategories by the algorithm; a pair the algorithm gives no
\* dtype is left out, and so is a key list naming a column its table lacks.)
C12_IndexKeysUnified ==
    (~KeyColumnMode /\ TypecastActed /\ KeysAreColumns)
    => \A i \in 1..IndexKeyPairs :
         LET before == KeyPairDtypes(i, req.lhs_index, req.rhs_index)
             after == KeyPairDtypes(i, lhs_index, rhs_index)
             rules == RuleOutcomes(before[1], before[2])
         IN  IF \A r \in rules : r.err = "IncompatibleCategories"
             THEN pc = "error" /\ err = "IncompatibleCategories"
             ELSE IF \A r \in rules : r.rtn = NoDtype
             THEN TRUE
             ELSE /\ pc = "cast"
                  /\ to_categorical = <<>>
                  /\ \A name \in KeySet(lhs) \cup KeySet(rhs) : ~IsCodesName(name)
                  /\ \E r \in rules : r.err = "none" /\ after = <<r.rtn, r.rtn>>

====
